---- MODULE Spec2Model ----
(***************************************************************************)
(* A model of bi-encode/modeling.py: the dual-encoder retrieval models     *)
(* BiEncoderModel and MultiBiEncoderModel, their projection head           *)
(* (DensePooler), the target construction of a training forward, the loss  *)
(* policies, the cross-device gather and save / load.                      *)
(*                                                                         *)
(* Tensors are sequences: a matrix is a sequence of rows, a row a sequence *)
(* of entries.  The code indexes from 0, the sequences from 1; an index    *)
(* VALUE (a scatter index, a class target) keeps the code's 0-based value. *)
(***************************************************************************)
EXTENDS Integers, Sequences, FiniteSets, TLC

None == "None"

\* ------------------------------------------------------------------ bounds
\* largest per-process batch (queries per forward call)
MaxBatch == 2
\* largest number of candidates per query (N of the teacher matrix, the
\* passages-per-query factor k)
MaxGroup == 2
\* largest graded relevance value a teacher matrix holds
MaxRel == 1

\* largest number of processes in the distributed group
MaxWorld == 2
\* largest parameter value of an encoder or of a projection head
MaxWeight == 2
\* largest similarity score, in units of ln 2
MaxScore == 1

VARIABLES
    tcall,      \* the target construction under check: its inputs and result
    world,      \* the distributed group and the model replicated on it
    pc,         \* per process: where its call stands
    coll,       \* the all_gather collectives so far: per collective, per rank,
                \* the tensor the rank contributed (NoTensor until it has)
    gathers,    \* per process: _dist_gather_tensor calls that reached all_gather
    t_in,       \* per process: the argument of its _dist_gather_tensor call
    t_out,      \* per process: what _dist_gather_tensor returned
    frame,      \* per process: the locals of its forward call
    out,        \* per process: what forward returned (EncoderOutput) or raised
    model,      \* the model instance in memory (save / load)
    disk,       \* the model directory on disk
    saved,      \* history: the model the directory was last saved from
    last,       \* the last save / load call and how it ended
    lcall,      \* the compute_loss call under check: its inputs and result
    ecall,      \* the constructor / encoding call under check and its result
    head,       \* the projection head instance in memory
    hcall,      \* the last operation on the projection head and its result
    bcall       \* the build call under check: its arguments and result

tgtVars == <<tcall>>
distVars == <<world, pc, coll, gathers>>
gatVars == <<t_in, t_out>>
fwdVars == <<frame, out>>
diskVars == <<model, disk, saved, last>>
lossVars == <<lcall>>
encVars == <<ecall>>
headVars == <<head, hcall>>
buildVars == <<bcall>>
vars == <<tcall, world, pc, coll, gathers, t_in, t_out, frame, out, model, disk, saved, last,
          lcall, ecall, head, hcall, bcall>>

\* ------------------------------------------------------------- tensors
\* Optional[Tensor]: None, or a batch of rows.  A row carries its value v and
\* whether it belongs to the caller's own computation graph (local) or is a
\* copy received through the exchange.
NoTensor == [none |-> TRUE, rows |-> <<>>]
Tensor(rows) == [none |-> FALSE, rows |-> rows]
LocalRows(values) == [i \in 1..Len(values) |-> [v |-> values[i], local |-> TRUE]]

\* ------------------------------------------------- target construction
\* torch.zeros_like(scores): a rows x cols matrix of zeros
ZerosLike(rows, cols) == [i \in 1..rows |-> [c \in 1..cols |-> 0]]

\* a plausible slip: row offsets that advance by 1 instead of by N
TeacherIndicesStride1(B, N) == [i \in 1..B |-> [j \in 1..N |-> (i - 1) + (j - 1)]]

\* torch.arange(B).unsqueeze(1) * N + torch.arange(N): the B x N matrix of
\* (0-based) column indices, entry (i, j) = i * N + j
TeacherIndices(B, N) == [i \in 1..B |-> [j \in 1..N |-> (i - 1) * N + (j - 1)]]

\* Tensor.scatter_(1, index, src): self[i][index[i][j]] = src[i][j] for every
\* entry of index.  It raises when index has more rows than self or an index
\* value is outside [0, cols).  The index rows built by TeacherIndices hold
\* distinct values, so the written value is unique.
ScatterRaises(self, index) ==
    \/ Len(index) > Len(self)
    \/ \E i \in 1..Len(index) : \E j \in 1..Len(index[i]) :
           index[i][j] < 0 \/ index[i][j] >= Len(self[1])

Scatter1(self, index, src) ==
    [i \in 1..Len(self) |->
        [c \in 1..Len(self[1]) |->
            IF i <= Len(index) /\ \E j \in 1..Len(index[i]) : index[i][j] = c - 1
            THEN src[i][CHOOSE j \in 1..Len(index[i]) : index[i][j] = c - 1]
            ELSE self[i][c]]]

\* forward, teacher branch: target = zeros_like(scores); B, N = teacher.shape;
\* target.scatter_(1, indices, teacher_score)
\* The result is [raised, target]: raised names the exception scatter_ raises
\* (None when it returns), target is the matrix (empty when it raised).
TeacherTarget(rows, cols, teacher_score) ==
    LET B == Len(teacher_score)
        N == Len(teacher_score[1])
        zeros == ZerosLike(rows, cols)
        indices == TeacherIndices(B, N)
    IN  IF ScatterRaises(zeros, indices)
        THEN [raised |-> "RuntimeError", target |-> <<>>]
        ELSE [raised |-> None, target |-> Scatter1(zeros, indices, teacher_score)]

\* a plausible slip: the ratio taken the wrong way round
ImplicitTargetInverted(Q, P) == [i \in 1..Q |-> (i - 1) * (Q \div P)]

\* forward, implicit branch: target = arange(scores.size(0)) * (P // Q)
ImplicitTarget(Q, P) == [i \in 1..Q |-> (i - 1) * (P \div Q)]

Matrices(B, N) == [1..B -> [1..N -> 0..MaxRel]]

TgtIdle == tcall = [op |-> "none"]
DistIdle ==
    /\ world = [world_size |-> 1]
    /\ pc = <<>> /\ coll = <<>> /\ gathers = <<>>
GatIdle == t_in = <<>> /\ t_out = <<>>
FwdIdle == frame = <<>> /\ out = <<>>
DiskIdle == model = <<>> /\ disk = <<>> /\ saved = <<>> /\ last = <<>>
LossIdle == lcall = [op |-> "none"]
EncIdle == ecall = [op |-> "none"]
HeadIdle == head = <<>> /\ hcall = [op |-> "none"]
BuildIdle == bcall = [op |-> "none"]

TgtInit ==
    /\ TgtIdle /\ DistIdle /\ GatIdle /\ FwdIdle /\ DiskIdle /\ LossIdle /\ EncIdle
    /\ HeadIdle /\ BuildIdle

\* the teacher branch on a scores matrix of rows x cols and a teacher matrix R
BuildTeacherTarget ==
    /\ tcall.op = "none"
    /\ \E B \in 1..MaxBatch, N \in 1..MaxGroup, extra \in 0..1, slack \in -1..1 :
      \E R \in Matrices(B, N) :
        /\ B * N + slack >= 1
        /\ tcall' = [op |-> "teacher", rows |-> B + extra, cols |-> B * N + slack,
                     R |-> R,
                     out |-> TeacherTarget(B + extra, B * N + slack, R)]
        /\ UNCHANGED <<distVars, gatVars, fwdVars, diskVars, lossVars, encVars, headVars, buildVars>>

\* the implicit branch on Q gathered queries and P gathered passages
BuildImplicitTarget ==
    /\ tcall.op = "none"
    /\ \E Q \in 1..MaxBatch, P \in 1..(MaxBatch * MaxGroup) :
        /\ tcall' = [op |-> "implicit", Q |-> Q, P |-> P,
                     target |-> ImplicitTarget(Q, P)]
        /\ UNCHANGED <<distVars, gatVars, fwdVars, diskVars, lossVars, encVars, headVars, buildVars>>

TgtNext == BuildTeacherTarget \/ BuildImplicitTarget

SpecTarget == TgtInit /\ [][TgtNext]_vars


\* ------------------------------------------------------------- encoding
\* A sentence embedding has one dimension here; its value is the rational
\* num / den, kept unreduced.
Rat(num, den) == [num |-> num, den |-> den]

RECURSIVE SumTo(_, _)
\* sum of f[1..n]
SumTo(f, n) == IF n = 0 THEN 0 ELSE SumTo(f, n - 1) + f[n]

\* the backbone encoder, an external collaborator: last_hidden_state is a
\* deterministic function of the encoder's parameters and the token ids
\* (here parameter * id per token)
LastHiddenState(lm, batch) ==
    [i \in 1..Len(batch) |-> [t \in 1..Len(batch[i].ids) |-> lm.w * batch[i].ids[t]]]

\* sentence_embedding: 'mean' is the masked sum over the masked count, 'cls'
\* the first position; any other method falls off the if / elif and the
\* function returns None
SentenceEmbedding(method, hidden_state, mask) ==
    IF method = "mean"
    THEN [raised |-> None,
          reps |-> Tensor([i \in 1..Len(hidden_state) |->
            Rat(SumTo([t \in 1..Len(mask[i]) |-> hidden_state[i][t] * mask[i][t]],
                      Len(mask[i])),
                SumTo(mask[i], Len(mask[i])))])]
    ELSE IF method = "cls"
    THEN [raised |-> None,
          reps |-> Tensor([i \in 1..Len(hidden_state) |-> Rat(hidden_state[i][1], 1)])]
    ELSE [raised |-> None, reps |-> NoTensor]

\* nn.Linear on a one-dimensional vector: weight * x + bias
Linear(lin, x) == Rat(lin.w * x.num + lin.b * x.den, x.den)

\* a plausible slip: the passage side tested before the query side
PoolerForwardPassageFirst(pooler, q, p) ==
    IF ~p.none
    THEN [raised |-> None,
          reps |-> Tensor([i \in 1..Len(p.rows) |-> Linear(pooler.linear_p, p.rows[i])])]
    ELSE IF ~q.none
    THEN [raised |-> None,
          reps |-> Tensor([i \in 1..Len(q.rows) |-> Linear(pooler.linear_q, q.rows[i])])]
    ELSE [raised |-> "ValueError", reps |-> NoTensor]

\* DensePooler.forward(q=..., p=...)
PoolerForward(pooler, q, p) ==
    IF ~q.none
    THEN [raised |-> None,
          reps |-> Tensor([i \in 1..Len(q.rows) |-> Linear(pooler.linear_q, q.rows[i])])]
    ELSE IF ~p.none
    THEN [raised |-> None,
          reps |-> Tensor([i \in 1..Len(p.rows) |-> Linear(pooler.linear_p, p.rows[i])])]
    ELSE [raised |-> "ValueError", reps |-> NoTensor]

Sign(n) == IF n > 0 THEN 1 ELSE IF n < 0 THEN -1 ELSE 0

\* torch.nn.functional.normalize(x, dim=-1) on a one-dimensional vector:
\* x / max(|x|, eps), that is the sign of x (the mask count den is positive)
Normalize(x) == Rat(Sign(x.num) * Sign(x.den), 1)

\* the tail shared by encode_query and encode_passage, from the pooled
\* embedding on: projection head, normalization, .contiguous()
EncodeTail(m, side, pooled) ==
    IF pooled.raised # None THEN pooled
    ELSE
    LET projected ==
            IF m.pooler.none THEN pooled
            ELSE IF side = "q" THEN PoolerForward(m.pooler, pooled.reps, NoTensor)
            ELSE PoolerForward(m.pooler, NoTensor, pooled.reps)
    IN  IF projected.raised # None THEN projected
        ELSE IF projected.reps.none
        THEN \* F.normalize(None) and None.contiguous() both fail on None
             [raised |-> "AttributeError", reps |-> NoTensor]
        ELSE IF m.normlized
        THEN [raised |-> None,
              reps |-> Tensor([i \in 1..Len(projected.reps.rows) |->
                                  Normalize(projected.reps.rows[i])])]
        ELSE projected

\* a token batch: None, or examples of token ids with their attention mask
NoBatch == [none |-> TRUE, examples |-> <<>>]
Batch(examples) == [none |-> FALSE, examples |-> examples]
Masks(batch) == [i \in 1..Len(batch) |-> batch[i].attention_mask]

\* encode_query(qry): [raised, reps]
EncodeQuery(m, qry) ==
    IF qry.none THEN [raised |-> None, reps |-> NoTensor]
    ELSE EncodeTail(m, "q",
            SentenceEmbedding(m.sentence_pooling_method,
                              LastHiddenState(m.lm_q, qry.examples), Masks(qry.examples)))

\* encode_passage(psg): [raised, reps]
EncodePassage(m, psg) ==
    IF psg.none THEN [raised |-> None, reps |-> NoTensor]
    ELSE EncodeTail(m, "p",
            SentenceEmbedding(m.sentence_pooling_method,
                              LastHiddenState(m.lm_p, psg.examples), Masks(psg.examples)))

\* --------------------------------------------------- cross-device gather
Ranks == 0..(world.world_size - 1)

\* what dist.all_gather writes into a placeholder: a copy of the sender's
\* tensor, outside the receiver's computation graph
Received(t) == [i \in 1..Len(t.rows) |-> [v |-> t.rows[i].v, local |-> FALSE]]

RECURSIVE Cat(_, _)
\* torch.cat(all_tensors, dim=0) over the slots 0..hi, in slot order
Cat(slots, hi) ==
    IF hi < 0 THEN <<>> ELSE Cat(slots, hi - 1) \o slots[hi]

\* a plausible slip: the caller's slot keeps the copy all_gather wrote
GatheredNoRestore(slot, rank, t) ==
    Tensor(Cat([j \in Ranks |-> Received(slot[j])], world.world_size - 1))

\* _dist_gather_tensor after all_gather returned: all_tensors[j] holds rank j's
\* tensor as received, all_tensors[process_rank] = t, then the concatenation
Gathered(slot, rank, t) ==
    LET all_tensors == [j \in Ranks |-> IF j = rank THEN t.rows ELSE Received(slot[j])]
    IN  Tensor(Cat(all_tensors, world.world_size - 1))

\* the collectives after rank contributes t to its n-th all_gather
Contribute(rank, n, t) ==
    IF n <= Len(coll)
    THEN [coll EXCEPT ![n][rank] = t]
    ELSE Append(coll, [j \in Ranks |-> IF j = rank THEN t ELSE NoTensor])

\* a plausible slip: all_gather returning as soon as the caller contributed
AllGatherDoneAlone(n) == n <= Len(coll)

\* all_gather is a barrier: it returns once every rank has contributed
AllGatherDone(n) ==
    /\ n <= Len(coll)
    /\ \A j \in Ranks : ~coll[n][j].none

TensorsOf(B) == {Tensor(LocalRows(vals)) : vals \in [1..B -> 0..MaxRel]}

GatInit ==
    /\ TgtIdle /\ FwdIdle /\ DiskIdle /\ LossIdle /\ EncIdle /\ HeadIdle /\ BuildIdle
    /\ \E W \in 1..MaxWorld, B \in 1..MaxBatch :
          world = [world_size |-> W, B |-> B]
    /\ pc = [r \in Ranks |-> "ready"]
    /\ coll = <<>>
    /\ gathers = [r \in Ranks |-> 0]
    /\ t_in = [r \in Ranks |-> NoTensor]
    /\ t_out = [r \in Ranks |-> NoTensor]

\* _dist_gather_tensor(None): returns None before any exchange
GatherNone(r) ==
    /\ pc[r] = "ready"
    /\ pc' = [pc EXCEPT ![r] = "returned"]
    /\ t_in' = [t_in EXCEPT ![r] = NoTensor]
    /\ t_out' = [t_out EXCEPT ![r] = NoTensor]
    /\ UNCHANGED <<world, coll, gathers, tcall, fwdVars, diskVars, lossVars, encVars, headVars, buildVars>>

\* _dist_gather_tensor(t), up to the point where all_gather blocks
GatherCall(r) ==
    \E t \in TensorsOf(world.B) :
        /\ pc[r] = "ready"
        /\ pc' = [pc EXCEPT ![r] = "all_gather"]
        /\ t_in' = [t_in EXCEPT ![r] = t]
        /\ gathers' = [gathers EXCEPT ![r] = @ + 1]
        /\ coll' = Contribute(r, gathers[r] + 1, t)
        /\ UNCHANGED <<world, t_out, tcall, fwdVars, diskVars, lossVars, encVars, headVars, buildVars>>

\* all_gather returns; the rest of _dist_gather_tensor runs
GatherReturn(r) ==
    /\ pc[r] = "all_gather"
    /\ AllGatherDone(gathers[r])
    /\ pc' = [pc EXCEPT ![r] = "returned"]
    /\ t_out' = [t_out EXCEPT ![r] = Gathered(coll[gathers[r]], r, t_in[r])]
    /\ UNCHANGED <<world, coll, gathers, t_in, tcall, fwdVars, diskVars, lossVars, encVars, headVars, buildVars>>

GatNext ==
    \/ \E r \in Ranks : GatherNone(r)
    \/ \E r \in Ranks : GatherCall(r)
    \/ \E r \in Ranks : GatherReturn(r)

SpecGather == GatInit /\ [][GatNext]_vars

\* ------------------------------------------------------------- forward
NoPooler == [none |-> TRUE]

\* compute_similarity: q_reps @ p_reps^T, entry (i, c) the product of query i
\* and passage c
ComputeSimilarity(q_reps, p_reps) ==
    [i \in 1..Len(q_reps.rows) |->
        [c \in 1..Len(p_reps.rows) |->
            Rat(q_reps.rows[i].v.num * p_reps.rows[c].v.num,
                q_reps.rows[i].v.den * p_reps.rows[c].v.den)]]

\* scores / self.temperature, entry by entry (temperature an integer here).
\* Float division never raises: a zero temperature leaves the denominator 0
\* (inf or nan in the tensor), a negative one flips the sign.
DivideBy(scores, temperature) ==
    [i \in 1..Len(scores) |->
        [c \in 1..Len(scores[i]) |-> Rat(scores[i][c].num, scores[i][c].den * temperature)]]

NoOutput == [raised |-> None, returned |-> FALSE]

\* EncoderOutput(q_reps, p_reps, loss, scores); target_rows is the number of
\* teacher rows the target was built from (0 without a teacher target)
EncoderOutput(q_reps, p_reps, loss, scores) ==
    [raised |-> None, returned |-> TRUE,
     q_reps |-> q_reps, p_reps |-> p_reps, loss |-> loss, scores |-> scores]
Raised(exc) == [raised |-> exc, returned |-> FALSE]

NoLoss == [none |-> TRUE]
\* the value of compute_loss(scores, target), kept as its arguments' target
LossOf(kind, target, teacher_rows) ==
    [none |-> FALSE, kind |-> kind, target |-> target, teacher_rows |-> teacher_rows]
NoScores == [none |-> TRUE, m |-> <<>>]
Scores(m) == [none |-> FALSE, m |-> m]

TeacherMatrix(teacher_score) == [i \in 1..Len(teacher_score.rows) |-> teacher_score.rows[i].v]

\* BiEncoderModel.forward in training mode, after the gathers: similarity,
\* temperature, target and loss
BiTrainingTail(m, q_reps, p_reps, teacher_score) ==
    LET scores == DivideBy(ComputeSimilarity(q_reps, p_reps), m.temperature)
        Q == Len(q_reps.rows)
        P == Len(p_reps.rows)
    IN  IF ~teacher_score.none
        THEN LET tt == TeacherTarget(Q, P, TeacherMatrix(teacher_score))
             IN  IF tt.raised # None THEN Raised(tt.raised)
                 ELSE EncoderOutput(q_reps, p_reps,
                        LossOf("teacher", tt.target, Len(teacher_score.rows)),
                        Scores(scores))
        ELSE EncoderOutput(q_reps, p_reps,
                LossOf("implicit", ImplicitTarget(Q, P), 0), Scores(scores))

\* MultiBiEncoderModel.forward in training mode, after the gathers: the teacher
\* matrix is read unconditionally (teacher_score.shape)
MultiTrainingTail(m, q_reps, p_reps, teacher_score) ==
    LET scores == DivideBy(ComputeSimilarity(q_reps, p_reps), m.temperature)
        Q == Len(q_reps.rows)
        P == Len(p_reps.rows)
    IN  IF teacher_score.none THEN Raised("AttributeError")
        ELSE LET tt == TeacherTarget(Q, P, TeacherMatrix(teacher_score))
             IN  IF tt.raised # None THEN Raised(tt.raised)
                 ELSE EncoderOutput(q_reps, p_reps,
                        LossOf("teacher", tt.target, Len(teacher_score.rows)),
                        Scores(scores))

TrainingTail(m, q_reps, p_reps, teacher_score) ==
    IF m.variant = "BiEncoderModel"
    THEN BiTrainingTail(m, q_reps, p_reps, teacher_score)
    ELSE MultiTrainingTail(m, q_reps, p_reps, teacher_score)

\* whether forward gathers the teacher matrix after the passages:
\* BiEncoderModel does in its teacher branch, MultiBiEncoderModel never does
GathersTeacher(m, teacher_score) ==
    m.variant = "BiEncoderModel" /\ ~teacher_score.none

\* the inputs of process r: B queries, B * k passages laid out in blocks of k
\* per query, a B x k teacher matrix
QueryBatch(r) ==
    Batch([i \in 1..world.B |->
            [ids |-> <<1 + r * world.B + i, 1>>, attention_mask |-> <<1, 1>>]])
PassageBatch(r) ==
    Batch([c \in 1..(world.B * world.k) |->
            [ids |-> <<2 + r * world.B * world.k + c, 3>>, attention_mask |-> <<1, 0>>]])
TeacherScore(r) ==
    Tensor(LocalRows([i \in 1..world.B |->
                        [j \in 1..world.k |-> (r + i + j) % (MaxRel + 1)]]))

AsTensor(reps) ==
    IF reps.none THEN NoTensor ELSE Tensor(LocalRows(reps.rows))

\* models as __init__ leaves them (every attribute stored as given): the
\* family with temperature 1, and models whose temperature is not positive
NonPositiveTemperatures == {0 - 1, 0}
Models ==
    [variant : {"BiEncoderModel", "MultiBiEncoderModel"},
     lm_q : {[obj |-> "lm_q", w |-> 1]},
     lm_p : {[obj |-> "lm_p", w |-> 2]},
     pooler : {NoPooler},
     untie_encoder : {TRUE},
     normlized : {FALSE},
     sentence_pooling_method : {"cls", "mean", "max"},
     temperature : {1},
     negatives_x_device : BOOLEAN,
     training : BOOLEAN]
    \cup
    [variant : {"BiEncoderModel", "MultiBiEncoderModel"},
     lm_q : {[obj |-> "lm_q", w |-> 1]},
     lm_p : {[obj |-> "lm_p", w |-> 2]},
     pooler : {NoPooler},
     untie_encoder : {TRUE},
     normlized : {FALSE},
     sentence_pooling_method : {"cls"},
     temperature : NonPositiveTemperatures,
     negatives_x_device : {FALSE},
     training : {TRUE}]

FwdInit ==
    /\ TgtIdle /\ GatIdle /\ DiskIdle /\ LossIdle /\ EncIdle /\ HeadIdle /\ BuildIdle
    /\ \E W \in 1..MaxWorld, B \in 1..MaxBatch, k \in 1..MaxGroup, m \in Models :
          world = [world_size |-> W, B |-> B, k |-> k, model |-> m]
    /\ pc = [r \in Ranks |-> "ready"]
    /\ coll = <<>>
    /\ gathers = [r \in Ranks |-> 0]
    /\ frame = [r \in Ranks |-> [query |-> NoBatch, passage |-> NoBatch,
                                 q_reps |-> NoTensor, p_reps |-> NoTensor,
                                 teacher_score |-> NoTensor]]
    /\ out = [r \in Ranks |-> NoOutput]

\* a plausible slip: the early return taken only when both sides are absent
EncodingOnlyBoth(q_reps, p_reps) == q_reps.none /\ p_reps.none

\* forward's test for an encoding-only call: q_reps is None or p_reps is None
EncodingOnly(q_reps, p_reps) == q_reps.none \/ p_reps.none

\* forward leaves with an output or an exception
Leave(r, result) ==
    /\ pc' = [pc EXCEPT ![r] = IF result.returned THEN "returned" ELSE "raised"]
    /\ out' = [out EXCEPT ![r] = result]

\* forward enters _dist_gather_tensor(t) and blocks in all_gather
EnterGather(r, t, at) ==
    /\ pc' = [pc EXCEPT ![r] = at]
    /\ gathers' = [gathers EXCEPT ![r] = @ + 1]
    /\ coll' = Contribute(r, gathers[r] + 1, t)

\* forward(query, passage, teacher_score) on process r, from its start to its
\* return or to its first all_gather
Forward(r) ==
    \E hasQ \in BOOLEAN, hasP \in BOOLEAN, hasT \in BOOLEAN :
        LET m == world.model
            query == IF hasQ THEN QueryBatch(r) ELSE NoBatch
            passage == IF hasP THEN PassageBatch(r) ELSE NoBatch
            eq == EncodeQuery(m, query)
            ep == EncodePassage(m, passage)
            q_reps == AsTensor(eq.reps)
            p_reps == AsTensor(ep.reps)
            teacher_score == IF hasT THEN TeacherScore(r) ELSE NoTensor
        IN  /\ pc[r] = "ready"
            /\ frame' = [frame EXCEPT ![r] = [query |-> query, passage |-> passage,
                                              q_reps |-> q_reps, p_reps |-> p_reps,
                                              teacher_score |-> teacher_score]]
            /\ IF eq.raised # None
               THEN Leave(r, Raised(eq.raised)) /\ UNCHANGED <<coll, gathers>>
               ELSE IF ep.raised # None
               THEN Leave(r, Raised(ep.raised)) /\ UNCHANGED <<coll, gathers>>
               ELSE IF EncodingOnly(q_reps, p_reps)
               THEN /\ Leave(r, EncoderOutput(q_reps, p_reps, NoLoss, NoScores))
                    /\ UNCHANGED <<coll, gathers>>
               ELSE IF ~m.training
               THEN /\ Leave(r, EncoderOutput(q_reps, p_reps, NoLoss,
                                    Scores(ComputeSimilarity(q_reps, p_reps))))
                    /\ UNCHANGED <<coll, gathers>>
               ELSE IF m.negatives_x_device
               THEN EnterGather(r, q_reps, "gather_q") /\ UNCHANGED out
               ELSE /\ Leave(r, TrainingTail(m, q_reps, p_reps, teacher_score))
                    /\ UNCHANGED <<coll, gathers>>
            /\ UNCHANGED <<world, tcall, gatVars, diskVars, lossVars, encVars, headVars, buildVars>>

\* q_reps = self._dist_gather_tensor(q_reps) returns; the passage gather starts
GatheredQ(r) ==
    /\ pc[r] = "gather_q"
    /\ AllGatherDone(gathers[r])
    /\ frame' = [frame EXCEPT ![r].q_reps = Gathered(coll[gathers[r]], r, @)]
    /\ EnterGather(r, frame[r].p_reps, "gather_p")
    /\ UNCHANGED <<world, tcall, gatVars, diskVars, lossVars, encVars, out, headVars, buildVars>>

\* p_reps = self._dist_gather_tensor(p_reps) returns; the teacher gather starts
\* or forward runs to its end
GatheredP(r) ==
    LET m == world.model
        p_reps == Gathered(coll[gathers[r]], r, frame[r].p_reps)
    IN  /\ pc[r] = "gather_p"
        /\ AllGatherDone(gathers[r])
        /\ frame' = [frame EXCEPT ![r].p_reps = p_reps]
        /\ IF GathersTeacher(m, frame[r].teacher_score)
           THEN EnterGather(r, frame[r].teacher_score, "gather_t") /\ UNCHANGED out
           ELSE /\ Leave(r, TrainingTail(m, frame[r].q_reps, p_reps, frame[r].teacher_score))
                /\ UNCHANGED <<coll, gathers>>
        /\ UNCHANGED <<world, tcall, gatVars, diskVars, lossVars, encVars, headVars, buildVars>>

\* teacher_score = self._dist_gather_tensor(teacher_score) returns; forward
\* runs to its end
GatheredT(r) ==
    LET m == world.model
        teacher_score == Gathered(coll[gathers[r]], r, frame[r].teacher_score)
    IN  /\ pc[r] = "gather_t"
        /\ AllGatherDone(gathers[r])
        /\ frame' = [frame EXCEPT ![r].teacher_score = teacher_score]
        /\ Leave(r, TrainingTail(m, frame[r].q_reps, frame[r].p_reps, teacher_score))
        /\ UNCHANGED <<world, tcall, gatVars, diskVars, lossVars, encVars, coll, gathers, headVars, buildVars>>

FwdNext ==
    \/ \E r \in Ranks : Forward(r)
    \/ \E r \in Ranks : GatheredQ(r)
    \/ \E r \in Ranks : GatheredP(r)
    \/ \E r \in Ranks : GatheredT(r)

SpecForward == FwdInit /\ [][FwdNext]_vars

\* the _dist_gather_tensor calls BiEncoderModel.forward makes for the inputs
\* in process r's frame: query, passage and teacher matrix in the teacher
\* branch, query and passage in the other, none outside gathered training
GatherCalls(r) ==
    IF world.model.training /\ world.model.negatives_x_device
        /\ ~frame[r].q_reps.none /\ ~frame[r].p_reps.none
    THEN IF ~frame[r].teacher_score.none THEN 3 ELSE 2
    ELSE 0

\* a group training BiEncoderModel with cross-device gathering, one query
\* and one passage per process
BarrierInit ==
    /\ FwdInit
    /\ world.B = 1 /\ world.k = 1
    /\ world.model.variant = "BiEncoderModel"
    /\ world.model.training
    /\ world.model.negatives_x_device
    /\ world.model.sentence_pooling_method \in {"cls", "mean"}

\* the steps of process r
ProcessStep(r) ==
    /\ r \in Ranks
    /\ Forward(r) \/ GatheredQ(r) \/ GatheredP(r) \/ GatheredT(r)

\* every process keeps running: a call that can return does return
SpecBarrier ==
    /\ BarrierInit /\ [][FwdNext]_vars
    /\ \A r \in 0..(MaxWorld - 1) : WF_vars(ProcessStep(r))

\* ------------------------------------------------------- save and load
\* A backbone encoder is an object (obj, its identity) holding parameters w;
\* two attributes naming one instance hold equal records.  A weights file
\* holds the parameters; 0 stands for a directory without a weights file.
NoWeights == 0
Encoder(obj, w) == [obj |-> obj, w |-> w]

\* DensePooler(input_dim, output_dim, tied): linear_p is linear_q when tied
DensePooler(tied, lq, lp) ==
    [none |-> FALSE, tied |-> tied,
     linear_q |-> lq, linear_p |-> IF tied THEN lq ELSE lp]

\* DensePooler.state_dict(): both attributes are listed, tied or not
StateDict(pooler) == [linear_q |-> pooler.linear_q, linear_p |-> pooler.linear_p]

\* DensePooler(**config) followed by load_state_dict(state): the keys are
\* copied in order, linear_q then linear_p; tied, both name one module and
\* the later key stays
LoadPooler(config, state) ==
    IF config.tied
    THEN DensePooler(TRUE, state.linear_p, state.linear_p)
    ELSE DensePooler(FALSE, state.linear_q, state.linear_p)

NoFile == [none |-> TRUE]
File(content) == [none |-> FALSE, content |-> content]
NoDir == [exists |-> FALSE, w |-> NoWeights]

\* the model directory: whether it exists, the weights file at its root, the
\* query_model and passage_model subdirectories, pooler.pt, pooler_config.json
FreshDir ==
    [exists |-> FALSE, w |-> NoWeights, query_model |-> NoDir, passage_model |-> NoDir,
     pooler_pt |-> NoFile, pooler_config |-> NoFile]

\* os.makedirs(path) of a missing subdirectory
MadeDir == [exists |-> TRUE, w |-> NoWeights]

\* a plausible slip: makedirs(..., exist_ok=True), an existing subdirectory is
\* written over
SaveOverwriting(m, d) ==
    LET backbones ==
            IF m.untie_encoder
            THEN [d EXCEPT !.exists = TRUE,
                           !.query_model = [exists |-> TRUE, w |-> m.lm_q.w],
                           !.passage_model = [exists |-> TRUE, w |-> m.lm_p.w]]
            ELSE [d EXCEPT !.exists = TRUE, !.w = m.lm_q.w]
    IN  [raised |-> None,
         disk |-> IF m.pooler.none THEN backbones
                  ELSE [backbones EXCEPT
                          !.pooler_pt = File(StateDict(m.pooler)),
                          !.pooler_config = File([tied |-> m.pooler.tied])]]

\* save(output_dir): [raised, disk], the exception (None when it returns) and
\* the directory it leaves behind
Save(m, d) ==
    IF m.untie_encoder /\ d.query_model.exists
    THEN [raised |-> "FileExistsError", disk |-> d]
    ELSE IF m.untie_encoder /\ d.passage_model.exists
    THEN [raised |-> "FileExistsError",
          disk |-> [d EXCEPT !.exists = TRUE, !.query_model = MadeDir]]
    ELSE
    LET backbones ==
            IF m.untie_encoder
            THEN [d EXCEPT !.exists = TRUE,
                           !.query_model = [exists |-> TRUE, w |-> m.lm_q.w],
                           !.passage_model = [exists |-> TRUE, w |-> m.lm_p.w]]
            ELSE [d EXCEPT !.exists = TRUE, !.w = m.lm_q.w]
    IN  [raised |-> None,
         disk |-> IF m.pooler.none THEN backbones
                  ELSE [backbones EXCEPT
                          !.pooler_pt = File(StateDict(m.pooler)),
                          !.pooler_config = File([tied |-> m.pooler.tied])]]

\* the constructor call that ends load: every other attribute at its default
Constructed(variant, lm_q, lm_p, pooler, untie_encoder, normlized, method) ==
    [variant |-> variant, lm_q |-> lm_q, lm_p |-> lm_p, pooler |-> pooler,
     untie_encoder |-> untie_encoder, normlized |-> normlized,
     sentence_pooling_method |-> method, temperature |-> 1,
     negatives_x_device |-> FALSE, training |-> TRUE]

\* a plausible slip: the passage side read from the query_model subdirectory
LoadSameSide(variant, d, normlized, method) ==
    LET separate == d.exists /\ d.query_model.exists
        wq == IF separate THEN d.query_model.w ELSE d.w
        wp == IF separate THEN d.query_model.w ELSE d.w
        lm_q == Encoder("lm_q", wq)
        lm_p == IF separate THEN Encoder("lm_p", wp) ELSE lm_q
        untie_encoder == IF separate THEN FALSE ELSE TRUE
        pooler == IF ~d.pooler_pt.none /\ ~d.pooler_config.none
                  THEN LoadPooler(d.pooler_config.content, d.pooler_pt.content)
                  ELSE NoPooler
    IN  IF wq = NoWeights \/ wp = NoWeights
        THEN [raised |-> "OSError", model |-> <<>>]
        ELSE [raised |-> None,
              model |-> Constructed(variant, lm_q, lm_p, pooler,
                                    untie_encoder, normlized, method)]

\* load(model_name_or_path, normlized, sentence_pooling_method):
\* [raised, model].  from_pretrained raises OSError on a path without a
\* weights file.
Load(variant, d, normlized, method) ==
    LET separate == d.exists /\ d.query_model.exists
        wq == IF separate THEN d.query_model.w ELSE d.w
        wp == IF separate THEN d.passage_model.w ELSE d.w
        lm_q == Encoder("lm_q", wq)
        lm_p == IF separate THEN Encoder("lm_p", wp) ELSE lm_q
        untie_encoder == IF separate THEN FALSE ELSE TRUE
        pooler == IF ~d.pooler_pt.none /\ ~d.pooler_config.none
                  THEN LoadPooler(d.pooler_config.content, d.pooler_pt.content)
                  ELSE NoPooler
    IN  IF wq = NoWeights \/ wp = NoWeights
        THEN [raised |-> "OSError", model |-> <<>>]
        ELSE [raised |-> None,
              model |-> Constructed(variant, lm_q, lm_p, pooler,
                                    untie_encoder, normlized, method)]

Weights == 1..MaxWeight
Linears == [w : Weights, b : {1}]
Poolers ==
    {NoPooler} \cup {DensePooler(tied, lq, lp) :
                        tied \in BOOLEAN, lq \in Linears, lp \in {[w |-> 1, b |-> 1]}}

\* the models build hands to training: one encoder instance for both sides
\* when tied, two instances when untied
BuiltModels ==
    {Constructed(variant, Encoder("lm_q", wq),
                 IF untie THEN Encoder("lm_p", wp) ELSE Encoder("lm_q", wq),
                 pooler, untie, normlized, method) :
        variant \in {"BiEncoderModel", "MultiBiEncoderModel"},
        wq \in Weights, wp \in Weights, pooler \in Poolers, untie \in BOOLEAN,
        normlized \in BOOLEAN, method \in {"cls", "mean"}}

\* directories save may meet: none yet, an empty one, one where a
\* subdirectory was left behind
StartDirs ==
    {FreshDir,
     [FreshDir EXCEPT !.exists = TRUE],
     [FreshDir EXCEPT !.exists = TRUE, !.query_model = MadeDir],
     [FreshDir EXCEPT !.exists = TRUE, !.passage_model = MadeDir]}

NotSaved == [valid |-> FALSE]

DiskInit ==
    /\ TgtIdle /\ DistIdle /\ GatIdle /\ FwdIdle /\ LossIdle /\ EncIdle /\ HeadIdle /\ BuildIdle
    /\ model \in BuiltModels
    /\ disk \in StartDirs
    /\ saved = NotSaved
    /\ last = [op |-> "none", raised |-> None]

\* the optimizer, between calls: new parameters for each encoder instance
TrainStep ==
    /\ \E wq \in Weights, wp \in Weights :
          model' = [model EXCEPT
                      !.lm_q.w = wq,
                      !.lm_p.w = IF model.lm_p.obj = model.lm_q.obj THEN wq ELSE wp]
    /\ last' = [op |-> "train", raised |-> None]
    /\ UNCHANGED <<disk, saved, tcall, distVars, gatVars, fwdVars, lossVars, encVars, headVars, buildVars>>

\* model.save(output_dir)
SaveModel ==
    LET r == Save(model, disk)
    IN  /\ disk' = r.disk
        /\ last' = [op |-> "save", raised |-> r.raised,
                     had_query_model |-> disk.query_model.exists,
                     had_passage_model |-> disk.passage_model.exists]
        /\ saved' = IF r.raised = None
                    THEN [valid |-> TRUE, fresh |-> ~disk.exists, model |-> model]
                    ELSE NotSaved
        /\ UNCHANGED <<model, tcall, distVars, gatVars, fwdVars, lossVars, encVars, headVars, buildVars>>

\* cls.load(output_dir, normlized, sentence_pooling_method)
LoadModel ==
    \E normlized \in BOOLEAN, method \in {"cls", "mean"} :
        LET r == Load(model.variant, disk, normlized, method)
        IN  /\ last' = [op |-> "load", raised |-> r.raised,
                         normlized |-> normlized, method |-> method]
            /\ model' = IF r.raised = None THEN r.model ELSE model
            /\ UNCHANGED <<disk, saved, tcall, distVars, gatVars, fwdVars, lossVars, encVars, headVars, buildVars>>

DiskNext == TrainStep \/ SaveModel \/ LoadModel

SpecDisk == DiskInit /\ [][DiskNext]_vars

\* tokens to compare embeddings on
SampleBatch ==
    Batch(<<[ids |-> <<2, 3>>, attention_mask |-> <<1, 1>>],
            [ids |-> <<1, 5>>, attention_mask |-> <<1, 0>>]>>)

\* ------------------------------------------------------------ compute_loss
\* A score is n * ln 2 for an integer n >= 0, so exp(score) = 2^n and a
\* softmax is a ratio of integers.  Logarithms are in thousandths:
\* Ln1000[n] = 1000 * ln n rounded, with Ln1000[2^k] = k * Ln1000[2].
Ln1000 ==
    <<0, 693, 1099, 1386, 1609, 1792, 1946, 2079, 2197, 2303, 2398, 2485,
      2565, 2639, 2708, 2772, 2833, 2890, 2944, 2996, 3045, 3091, 3135, 3178,
      3219, 3258, 3296, 3332, 3367, 3401, 3434, 3465, 3497, 3526, 3555, 3584,
      3611, 3638, 3664, 3689, 3714, 3738, 3761, 3784, 3807, 3829, 3850, 3871,
      3892, 3912, 3932, 3951, 3970, 3989, 4007, 4025, 4043, 4060, 4078, 4094,
      4111, 4127, 4143, 4158>>

RECURSIVE Pow2(_)
Pow2(n) == IF n = 0 THEN 1 ELSE 2 * Pow2(n - 1)

\* sum over the row of exp(score)
ExpSum(row) == SumTo([c \in 1..Len(row) |-> Pow2(row[c])], Len(row))

\* -log_softmax(row)[c], in thousandths
NegLogSoftmax(row, c) == Ln1000[ExpSum(row)] - row[c] * Ln1000[2]

\* nn.CrossEntropyLoss(reduction='none') on class probabilities: per row,
\* -sum_c target[c] * log_softmax(scores)[c]
CrossEntropyRow(srow, trow) ==
    SumTo([c \in 1..Len(srow) |-> trow[c] * NegLogSoftmax(srow, c)], Len(srow))

RowSum(trow) == SumTo(trow, Len(trow))

\* the rows of a matrix a boolean mask keeps, in order (scores[valid_mask])
RECURSIVE Masked(_, _, _)
Masked(m, mask, n) ==
    IF n = 0 THEN <<>>
    ELSE IF mask[n] THEN Append(Masked(m, mask, n - 1), m[n])
    ELSE Masked(m, mask, n - 1)

\* a plausible slip: rows without a positive kept too
ValidMaskAll(target) == [i \in 1..Len(target) |-> RowSum(target[i]) >= 0]

\* myloss: valid_mask = target.sum(dim=1) > 0
ValidMask(target) == [i \in 1..Len(target) |-> RowSum(target[i]) > 0]

\* myloss, one retained row: -log(clamp(sum(softmax * target), 1e-9, 1.0)).
\* With pos the target-weighted sum of exp(score), the clamped mass is
\* pos / ExpSum: 1e-9 when pos is 0 (-log = 20.723), 1.0 when pos >= ExpSum.
PositiveMassLoss(srow, trow) ==
    LET pos == SumTo([c \in 1..Len(srow) |-> trow[c] * Pow2(srow[c])], Len(srow))
    IN  IF pos <= 0 THEN 20723
        ELSE IF pos >= ExpSum(srow) THEN 0
        ELSE Ln1000[ExpSum(srow)] - Ln1000[pos]

Returned(loss) == [raised |-> None, loss |-> loss]
Failed(exc) == [raised |-> exc, loss |-> Rat(0, 0)]

\* compute_loss, 'multi-softmax': per-row cross entropy averaged over the rows
\* whose loss is not zero; 0 * loss.sum() when there is none
MultiSoftmaxLoss(scores, target) ==
    LET loss == [i \in 1..Len(scores) |-> CrossEntropyRow(scores[i], target[i])]
        nonzero == Cardinality({i \in 1..Len(loss) : loss[i] # 0})
    IN  IF nonzero = 0
        THEN Returned(Rat(0 * SumTo(loss, Len(loss)), 1))
        ELSE Returned(Rat(SumTo(loss, Len(loss)), nonzero))

\* compute_loss, 'myloss': the mean of the positive-mass loss over the rows
\* the mask retains; torch.tensor(0.0) when it retains none
MyLoss(scores, target) ==
    LET valid_mask == ValidMask(target)
        valid_scores == Masked(scores, valid_mask, Len(scores))
        valid_target == Masked(target, valid_mask, Len(target))
    IN  IF Len(valid_scores) = 0
        THEN Returned(Rat(0, 1))
        ELSE Returned(Rat(SumTo([i \in 1..Len(valid_scores) |->
                                    PositiveMassLoss(valid_scores[i], valid_target[i])],
                                Len(valid_scores)),
                          Len(valid_scores)))

\* compute_loss, 'softmax': nn.CrossEntropyLoss(reduction='mean') on class
\* indices (a class outside the row raises) or on class probabilities
SoftmaxLoss(scores, target) ==
    IF target.kind = "class"
    THEN IF \E i \in 1..Len(scores) : target.v[i] >= Len(scores[i])
         THEN Failed("IndexError")
         ELSE Returned(Rat(SumTo([i \in 1..Len(scores) |->
                                     NegLogSoftmax(scores[i], target.v[i] + 1)],
                                 Len(scores)),
                           Len(scores)))
    ELSE Returned(Rat(SumTo([i \in 1..Len(scores) |->
                                CrossEntropyRow(scores[i], target.v[i])], Len(scores)),
                      Len(scores)))

\* a plausible slip: an unknown loss_type falls back to the 'softmax' policy
ComputeLossFallback(loss_type, scores, target) ==
    IF loss_type = "multi-softmax"
    THEN IF target.kind = "class" THEN Failed("RuntimeError")
         ELSE MultiSoftmaxLoss(scores, target.v)
    ELSE IF loss_type = "myloss"
    THEN IF target.kind = "class" THEN Failed("IndexError")
         ELSE MyLoss(scores, target.v)
    ELSE SoftmaxLoss(scores, target)

\* BiEncoderModel.compute_loss(scores, target): [raised, loss].  A target is a
\* vector of class indices (kind "class") or a float matrix (kind "matrix");
\* the matrix policies fail on a vector (shape mismatch, dim out of range).
ComputeLoss(loss_type, scores, target) ==
    IF loss_type = "softmax" THEN SoftmaxLoss(scores, target)
    ELSE IF loss_type = "multi-softmax"
    THEN IF target.kind = "class" THEN Failed("RuntimeError")
         ELSE MultiSoftmaxLoss(scores, target.v)
    ELSE IF loss_type = "myloss"
    THEN IF target.kind = "class" THEN Failed("IndexError")
         ELSE MyLoss(scores, target.v)
    ELSE \* assert 1 > 2
         Failed("AssertionError")

LossTypes == {"softmax", "multi-softmax", "myloss", "hinge"}

\* the score matrices tried: entry (i, c) = (shift + i * c) mod (MaxScore + 1),
\* or (shift + i + c) mod (MaxScore + 1) when tilted
ScoreMatrix(rows, cols, shift, tilted) ==
    [i \in 1..rows |->
        [c \in 1..cols |->
            (shift + IF tilted THEN i + c ELSE i * c) % (MaxScore + 1)]]

LossInit ==
    /\ TgtIdle /\ DistIdle /\ GatIdle /\ FwdIdle /\ DiskIdle /\ EncIdle /\ HeadIdle /\ BuildIdle
    /\ lcall = [op |-> "none"]

\* compute_loss on a float target matrix (a teacher target)
ComputeLossMatrix ==
    /\ lcall.op = "none"
    /\ \E rows \in 1..MaxBatch, cols \in 1..MaxGroup, shift \in 0..MaxScore,
          loss_type \in {"multi-softmax", "myloss", "hinge"} :
        \E target \in Matrices(rows, cols) :
            LET scores == ScoreMatrix(rows, cols, shift, FALSE)
            IN  lcall' = [op |-> "compute_loss", loss_type |-> loss_type,
                          scores |-> scores,
                          target |-> [kind |-> "matrix", v |-> target],
                          result |-> ComputeLoss(loss_type, scores,
                                                 [kind |-> "matrix", v |-> target])]
    /\ UNCHANGED <<tcall, distVars, gatVars, fwdVars, diskVars, encVars, headVars, buildVars>>

\* compute_loss on the implicit class targets of Q queries and P passages
ComputeLossClass ==
    /\ lcall.op = "none"
    /\ \E Q \in 1..MaxBatch, k \in 1..MaxGroup, shift \in 0..MaxScore,
          tilted \in BOOLEAN, loss_type \in LossTypes :
            LET scores == ScoreMatrix(Q, Q * k, shift, tilted)
                target == [kind |-> "class", v |-> ImplicitTarget(Q, Q * k)]
            IN  lcall' = [op |-> "compute_loss", loss_type |-> loss_type,
                          scores |-> scores, target |-> target,
                          result |-> ComputeLoss(loss_type, scores, target)]
    /\ UNCHANGED <<tcall, distVars, gatVars, fwdVars, diskVars, encVars, headVars, buildVars>>

LossNext == ComputeLossMatrix \/ ComputeLossClass

SpecLoss == LossInit /\ [][LossNext]_vars

\* ------------------------------------------- construction and encoding
\* BiEncoderModel.__init__ / MultiBiEncoderModel.__init__: [raised, model].
\* The attributes are stored as given; the one check is that cross-device
\* gathering needs an initialized distributed runtime.
NewModel(variant, lm_q, lm_p, pooler, untie_encoder, normlized, method, negatives_x_device, temperature, dist_initialized) ==
    IF negatives_x_device /\ ~dist_initialized
    THEN [raised |-> "ValueError", model |-> <<>>]
    ELSE [raised |-> None,
          model |-> [variant |-> variant, lm_q |-> lm_q, lm_p |-> lm_p, pooler |-> pooler,
                     untie_encoder |-> untie_encoder, normlized |-> normlized,
                     sentence_pooling_method |-> method, temperature |-> temperature,
                     negatives_x_device |-> negatives_x_device, training |-> TRUE]]

PoolingMethods == {"mean", "cls", "max"}

\* token batches of up to MaxBatch examples of two tokens, the first unmasked
Examples ==
    [ids : {<<1, 2>>, <<3, 1>>}, attention_mask : {<<1, 1>>, <<1, 0>>}]
TokenBatches ==
    {Batch(ex) : ex \in UNION {[1..n -> Examples] : n \in 1..MaxBatch}}

EncInit ==
    /\ TgtIdle /\ DistIdle /\ GatIdle /\ FwdIdle /\ DiskIdle /\ LossIdle /\ HeadIdle /\ BuildIdle
    /\ ecall = [op |-> "none"]

\* cls(lm_q, lm_p, pooler, ..., sentence_pooling_method, negatives_x_device)
ConstructModel ==
    /\ ecall.op = "none"
    /\ \E variant \in {"BiEncoderModel", "MultiBiEncoderModel"}, pooler \in Poolers,
          normlized \in BOOLEAN, method \in PoolingMethods,
          negatives_x_device \in BOOLEAN, dist_initialized \in BOOLEAN :
        ecall' = [op |-> "__init__", method |-> method,
                  negatives_x_device |-> negatives_x_device,
                  dist_initialized |-> dist_initialized,
                  result |-> NewModel(variant, Encoder("lm_q", 1), Encoder("lm_p", 2),
                                      pooler, TRUE, normlized, method,
                                      negatives_x_device, 1, dist_initialized)]
    /\ UNCHANGED <<tcall, distVars, gatVars, fwdVars, diskVars, lossVars, headVars, buildVars>>

\* model.sentence_embedding(hidden_state, mask)
CallSentenceEmbedding ==
    /\ ecall.op = "none"
    /\ \E method \in PoolingMethods, w \in Weights, batch \in TokenBatches :
        LET hidden_state == LastHiddenState(Encoder("lm_q", w), batch.examples)
        IN  ecall' = [op |-> "sentence_embedding", method |-> method,
                      hidden_state |-> hidden_state, mask |-> Masks(batch.examples),
                      result |-> SentenceEmbedding(method, hidden_state,
                                                   Masks(batch.examples))]
    /\ UNCHANGED <<tcall, distVars, gatVars, fwdVars, diskVars, lossVars, headVars, buildVars>>

\* model.encode_query(batch) / model.encode_passage(batch)
CallEncode ==
    /\ ecall.op = "none"
    /\ \E side \in {"q", "p"}, method \in PoolingMethods, pooler \in Poolers,
          normlized \in BOOLEAN, batch \in TokenBatches \cup {NoBatch} :
        LET m == NewModel("BiEncoderModel", Encoder("lm_q", 1), Encoder("lm_p", 2),
                          pooler, TRUE, normlized, method, FALSE, 1, FALSE).model
        IN  ecall' = [op |-> IF side = "q" THEN "encode_query" ELSE "encode_passage",
                      method |-> method, model |-> m, batch |-> batch,
                      result |-> IF side = "q" THEN EncodeQuery(m, batch)
                                 ELSE EncodePassage(m, batch)]
    /\ UNCHANGED <<tcall, distVars, gatVars, fwdVars, diskVars, lossVars, headVars, buildVars>>

EncNext == ConstructModel \/ CallSentenceEmbedding \/ CallEncode

SpecEncode == EncInit /\ [][EncNext]_vars

\* ------------------------------------------------------ projection head
\* A DensePooler instance as an object: the attributes linear_q and linear_p
\* name nn.Linear modules and modules holds the parameters of each module.
\* __init__ creates one module for linear_q and, when tied, binds linear_p to
\* that same module; untied, linear_p is a second module.
NewPooler(tied, lq, lp) ==
    [tied |-> tied,
     linear_q |-> "Linear#1",
     linear_p |-> IF tied THEN "Linear#1" ELSE "Linear#2",
     modules |-> IF tied THEN [id \in {"Linear#1"} |-> lq]
                 ELSE [id \in {"Linear#1", "Linear#2"} |->
                          IF id = "Linear#1" THEN lq ELSE lp]]

\* the head as forward reads it: each attribute followed to its parameters
Deref(h) ==
    [none |-> FALSE, tied |-> h.tied,
     linear_q |-> h.modules[h.linear_q], linear_p |-> h.modules[h.linear_p]]

\* pooled vectors handed to the head: None, or up to MaxBatch rows of value
\* 1 or 2
Vectors ==
    {NoTensor} \cup
    {Tensor([i \in 1..Len(x) |-> Rat(x[i], 1)]) :
        x \in UNION {[1..n -> {1, 2}] : n \in 1..MaxBatch}}

HeadInit ==
    /\ TgtIdle /\ DistIdle /\ GatIdle /\ FwdIdle /\ DiskIdle /\ LossIdle /\ EncIdle
    /\ BuildIdle
    /\ head = <<>>
    /\ hcall = [op |-> "none"]

\* DensePooler(input_dim, output_dim, tied=tied)
ConstructHead ==
    /\ hcall.op = "none"
    /\ \E tied \in BOOLEAN, lq \in Linears, lp \in Linears :
        /\ head' = NewPooler(tied, lq, lp)
        /\ hcall' = [op |-> "__init__", tied |-> tied]
    /\ UNCHANGED <<tcall, distVars, gatVars, fwdVars, diskVars, lossVars, encVars, buildVars>>

\* pooler(q=q, p=p)
CallHead ==
    /\ hcall.op # "none"
    /\ \E q \in Vectors, p \in Vectors :
        hcall' = [op |-> "forward", q |-> q, p |-> p,
                  result |-> PoolerForward(Deref(head), q, p)]
    /\ UNCHANGED <<head, tcall, distVars, gatVars, fwdVars, diskVars, lossVars, encVars,
                   buildVars>>

\* an optimizer step that rewrites, in place, the weight of the module one
\* attribute names
StepHead ==
    /\ hcall.op # "none"
    /\ \E side \in {"linear_q", "linear_p"} :
        \E w \in Weights \ {head.modules[head[side]].w} :
            /\ head' = [head EXCEPT !.modules[head[side]].w = w]
            /\ hcall' = [op |-> "step", side |-> side, before |-> Deref(head)]
    /\ UNCHANGED <<tcall, distVars, gatVars, fwdVars, diskVars, lossVars, encVars, buildVars>>

HeadNext == ConstructHead \/ CallHead \/ StepHead

SpecPooler == HeadInit /\ [][HeadNext]_vars

\* ---------------------------------------------------------------- build
\* the keywords each constructor accepts (neither takes **kwargs)
InitKeywords(variant) ==
    {"lm_q", "lm_p", "pooler", "untie_encoder", "normlized", "sentence_pooling_method",
     "negatives_x_device", "temperature", "contrastive_loss_weight"}
    \cup (IF variant = "BiEncoderModel" THEN {"loss_type"} ELSE {})

\* the keywords build passes to cls(...), the same in both variants
BuildKeywords ==
    {"lm_q", "lm_p", "pooler", "negatives_x_device", "untie_encoder", "normlized",
     "sentence_pooling_method", "temperature", "contrastive_loss_weight", "loss_type"}

\* a model path that loads: a hub name or a local directory, the directory
\* with or without the query_model / passage_model subdirectories
ModelPaths ==
    [isdir : BOOLEAN, has_query_model : BOOLEAN, w : Weights, w_q : {1}, w_p : {2}]

\* the encoders build loads from the path: [lm_q, lm_p]
BuildEncoders(path, untie_encoder) ==
    IF path.isdir /\ untie_encoder
    THEN IF path.has_query_model
         THEN [lm_q |-> Encoder("lm_q", path.w_q), lm_p |-> Encoder("lm_p", path.w_p)]
         ELSE [lm_q |-> Encoder("lm_q", path.w), lm_p |-> Encoder("lm_p", path.w)]
    ELSE IF untie_encoder
    THEN \* lm_p = copy.deepcopy(lm_q)
         [lm_q |-> Encoder("lm_q", path.w), lm_p |-> Encoder("lm_p", path.w)]
    ELSE [lm_q |-> Encoder("lm_q", path.w), lm_p |-> Encoder("lm_q", path.w)]

\* build_pooler(model_args) when add_pooler, else None
BuildPooler(add_pooler, untie_encoder) ==
    IF add_pooler
    THEN DensePooler(~untie_encoder, [w |-> 1, b |-> 1], [w |-> 1, b |-> 1])
    ELSE NoPooler

\* cls.build(model_args, train_args): [raised, model].  A keyword the
\* constructor does not accept makes the call cls(...) raise TypeError before
\* __init__ runs.
Build(variant, path, model_args, train_args, dist_initialized) ==
    LET enc == BuildEncoders(path, model_args.untie_encoder)
        pooler == BuildPooler(model_args.add_pooler, model_args.untie_encoder)
    IN  IF ~(BuildKeywords \subseteq InitKeywords(variant))
        THEN [raised |-> "TypeError", model |-> <<>>]
        ELSE NewModel(variant, enc.lm_q, enc.lm_p, pooler, model_args.untie_encoder,
                      model_args.normlized, model_args.sentence_pooling_method,
                      train_args.negatives_x_device, train_args.temperature,
                      dist_initialized)

ModelArguments ==
    [untie_encoder : BOOLEAN, normlized : BOOLEAN,
     sentence_pooling_method : {"cls", "mean"}, add_pooler : BOOLEAN]
TrainingArguments ==
    [negatives_x_device : BOOLEAN, temperature : {1, 2},
     loss_type : {"softmax", "multi-softmax", "myloss"}]

BuildInit ==
    /\ TgtIdle /\ DistIdle /\ GatIdle /\ FwdIdle /\ DiskIdle /\ LossIdle /\ EncIdle
    /\ HeadIdle
    /\ bcall = [op |-> "none"]

\* BiEncoderModel.build(model_args, train_args)
BuildBiEncoderModel ==
    /\ bcall.op = "none"
    /\ \E path \in ModelPaths, model_args \in ModelArguments,
          train_args \in TrainingArguments, dist_initialized \in BOOLEAN :
        bcall' = [op |-> "build", cls |-> "BiEncoderModel", path |-> path,
                  model_args |-> model_args, train_args |-> train_args,
                  dist_initialized |-> dist_initialized,
                  result |-> Build("BiEncoderModel", path, model_args, train_args,
                                   dist_initialized)]
    /\ UNCHANGED <<tcall, distVars, gatVars, fwdVars, diskVars, lossVars, encVars, headVars>>

\* MultiBiEncoderModel.build(model_args, train_args)
BuildMultiBiEncoderModel ==
    /\ bcall.op = "none"
    /\ \E path \in ModelPaths, model_args \in ModelArguments,
          train_args \in TrainingArguments, dist_initialized \in BOOLEAN :
        bcall' = [op |-> "build", cls |-> "MultiBiEncoderModel", path |-> path,
                  model_args |-> model_args, train_args |-> train_args,
                  dist_initialized |-> dist_initialized,
                  result |-> Build("MultiBiEncoderModel", path, model_args, train_args,
                                   dist_initialized)]
    /\ UNCHANGED <<tcall, distVars, gatVars, fwdVars, diskVars, lossVars, encVars, headVars>>

BuildNext == BuildBiEncoderModel \/ BuildMultiBiEncoderModel

SpecBuild == BuildInit /\ [][BuildNext]_vars

\* ------------------------------------------------------------------ claims

\* C1: for a teacher matrix R of shape B x N and a similarity matrix with B
\* rows and at least B*N columns, the target has the similarity matrix's
\* shape, its row i restricted to columns [i*N, i*N+N) equals R[i], and every
\* other entry is zero.
C1_TeacherTargetScattered ==
    (tcall.op = "teacher" /\ tcall.rows = Len(tcall.R)
        /\ tcall.cols >= Len(tcall.R) * Len(tcall.R[1]))
    => LET B == Len(tcall.R)
           N == Len(tcall.R[1])
           t == tcall.out.target
       IN  /\ tcall.out.raised = None
           /\ Len(t) = tcall.rows
           /\ \A i \in 1..B :
                /\ Len(t[i]) = tcall.cols
                /\ \A j \in 1..N : t[i][(i - 1) * N + j] = tcall.R[i][j]
                /\ \A c \in 1..tcall.cols :
                     (c - 1 < (i - 1) * N \/ c - 1 >= (i - 1) * N + N) => t[i][c] = 0

C1_Witness ==
    /\ tcall.op = "teacher"
    /\ Len(tcall.R) = 2 /\ Len(tcall.R[1]) = 2
    /\ tcall.rows = 2 /\ tcall.cols = 5
    /\ tcall.R = <<(<<0, 1>>), (<<1, 1>>)>>
    /\ tcall.out.raised = None
    /\ tcall.out.target = <<(<<0, 1, 0, 0, 0>>), (<<0, 0, 1, 1, 0>>)>>

\* C7: without a teacher signal, for Q queries and P = k*Q passages (k >= 1)
\* the class target of row i is i*k.
C7_ImplicitTargetBlocks ==
    tcall.op = "implicit"
    => \A k \in 1..(MaxBatch * MaxGroup) :
          tcall.P = k * tcall.Q
          => /\ Len(tcall.target) = tcall.Q
             /\ \A i \in 1..tcall.Q : tcall.target[i] = (i - 1) * k

C7_Witness ==
    /\ tcall.op = "implicit"
    /\ tcall.Q = 2 /\ tcall.P = 4
    /\ tcall.target = <<0, 2>>

\* C3: on rank r of W processes the gather returns, in rank order along the
\* batch axis, every process's tensor, slot r being the caller's own original
\* tensor and every other slot a received copy; a None input returns None;
\* with W = 1 the output equals the input.
C3_GatherRankOrder ==
    \A r \in DOMAIN pc :
        pc[r] = "returned"
        => IF t_in[r].none
           THEN t_out[r] = NoTensor /\ gathers[r] = 0
           ELSE LET B == Len(t_in[r].rows)
                IN  /\ ~t_out[r].none
                    /\ Len(t_out[r].rows) = world.world_size * B
                    /\ \A j \in Ranks : \A i \in 1..B :
                          LET row == t_out[r].rows[j * B + i]
                          IN  /\ row.v = t_in[j].rows[i].v
                              /\ row.local = (j = r)
                    /\ (world.world_size = 1 => t_out[r] = t_in[r])

C3_Witness ==
    /\ world.world_size = 2
    /\ pc[0] = "returned" /\ pc[1] = "returned"
    /\ t_in[0].rows = LocalRows(<<0, 1>>)
    /\ t_in[1].rows = LocalRows(<<1, 1>>)
    /\ t_out[1].rows = <<[v |-> 0, local |-> FALSE], [v |-> 1, local |-> FALSE],
                         [v |-> 1, local |-> TRUE], [v |-> 1, local |-> TRUE]>>

\* C2: with cross-device negative gathering enabled, a training forward of
\* either variant gathers the query embeddings, the passage embeddings and a
\* supplied teacher matrix before the similarity and the target are built, so
\* the teacher matrix the target is built from has one row per gathered query.
C2_TeacherGatheredWithQueries ==
    \A r \in DOMAIN pc :
        (pc[r] = "returned" /\ world.model.negatives_x_device /\ ~out[r].loss.none)
        => /\ Len(out[r].q_reps.rows) = world.world_size * world.B
           /\ Len(out[r].p_reps.rows) = world.world_size * world.B * world.k
           /\ (~frame[r].teacher_score.none
                 => /\ out[r].loss.kind = "teacher"
                    /\ out[r].loss.teacher_rows = Len(out[r].q_reps.rows))

\* C8: a forward with the query or the passage absent returns the embedding
\* of the side that was given and None for the absent side, with no loss and
\* no similarity matrix, in training and in evaluation mode alike, and makes
\* no gather call (for a model with a valid pooling method).
C8_EncodingOnlyForward ==
    \A r \in DOMAIN pc :
        (pc[r] # "ready" /\ (frame[r].query.none \/ frame[r].passage.none)
            /\ world.model.sentence_pooling_method \in {"mean", "cls"})
        => /\ pc[r] = "returned"
           /\ out[r].returned
           /\ out[r].q_reps.none = frame[r].query.none
           /\ out[r].p_reps.none = frame[r].passage.none
           /\ (~frame[r].query.none
                 => /\ Len(out[r].q_reps.rows) = Len(frame[r].query.examples)
                    /\ \A i \in 1..Len(out[r].q_reps.rows) :
                          /\ out[r].q_reps.rows[i].local
                          /\ out[r].q_reps.rows[i].v =
                                EncodeQuery(world.model, frame[r].query).reps.rows[i])
           /\ (~frame[r].passage.none
                 => /\ Len(out[r].p_reps.rows) = Len(frame[r].passage.examples)
                    /\ \A i \in 1..Len(out[r].p_reps.rows) :
                          /\ out[r].p_reps.rows[i].local
                          /\ out[r].p_reps.rows[i].v =
                                EncodePassage(world.model, frame[r].passage).reps.rows[i])
           /\ out[r].loss.none
           /\ out[r].scores.none
           /\ gathers[r] = 0

C8_Witness ==
    /\ world.world_size = 2 /\ world.B = 2
    /\ world.model.negatives_x_device /\ world.model.training
    /\ world.model.variant = "MultiBiEncoderModel"
    /\ pc[0] = "returned" /\ pc[1] = "returned"
    /\ ~frame[0].query.none /\ frame[0].passage.none
    /\ frame[1].query.none /\ ~frame[1].passage.none
    /\ ~out[0].q_reps.none /\ out[0].p_reps.none /\ out[0].loss.none
    /\ out[1].q_reps.none /\ ~out[1].p_reps.none /\ out[1].scores.none

\* C4: load detects the tie mode from the directory layout alone: a directory
\* with the query_model / passage_model subdirectories yields an untied model
\* (two encoder instances, untie_encoder set), a directory without them a tied
\* model (one shared instance, untie_encoder clear).
C4_LoadDetectsTieMode ==
    (last.op = "load" /\ last.raised = None)
    => IF disk.query_model.exists
       THEN model.untie_encoder /\ model.lm_q.obj # model.lm_p.obj
       ELSE ~model.untie_encoder /\ model.lm_q.obj = model.lm_p.obj

\* C5: an untied model saved to a fresh directory and loaded from it with the
\* same normalization and pooling settings carries, side by side, the saved
\* encoder parameters (and the saved projection head), so encode_query and
\* encode_passage return the embeddings of the saved model.
C5_UntiedRoundTrip ==
    (last.op = "load" /\ saved.valid /\ saved.fresh /\ saved.model.untie_encoder
        /\ last.normlized = saved.model.normlized
        /\ last.method = saved.model.sentence_pooling_method)
    => /\ last.raised = None
       /\ model.lm_q.w = saved.model.lm_q.w
       /\ model.lm_p.w = saved.model.lm_p.w
       /\ model.pooler.none = saved.model.pooler.none
       /\ (~model.pooler.none
             => /\ model.pooler.linear_q = saved.model.pooler.linear_q
                /\ model.pooler.linear_p = saved.model.pooler.linear_p)
       /\ EncodeQuery(model, SampleBatch) = EncodeQuery(saved.model, SampleBatch)
       /\ EncodePassage(model, SampleBatch) = EncodePassage(saved.model, SampleBatch)

C5_Witness ==
    /\ last.op = "load" /\ last.raised = None
    /\ saved.valid /\ saved.fresh /\ saved.model.untie_encoder
    /\ saved.model.lm_q.obj # saved.model.lm_p.obj
    /\ saved.model.lm_q.w = 2 /\ saved.model.lm_p.w = 1
    /\ ~saved.model.pooler.none /\ ~saved.model.pooler.tied
    /\ saved.model.pooler.linear_q.w = 2
    /\ last.normlized = saved.model.normlized
    /\ last.method = saved.model.sentence_pooling_method
    /\ last.method = "mean" /\ ~last.normlized
    /\ model.lm_p.w = 1
    /\ EncodePassage(model, SampleBatch).reps.rows # EncodeQuery(model, SampleBatch).reps.rows

\* C6: save on an untied model creates query_model and passage_model and
\* writes each backbone into its own subdirectory, and fails with the error
\* propagated when either subdirectory already exists; on a tied model it
\* writes one backbone to the root; a projection head that is present is saved
\* in both tie modes.
C6_SavePolicy ==
    last.op = "save"
    => /\ IF model.untie_encoder
          THEN IF last.had_query_model \/ last.had_passage_model
               THEN last.raised = "FileExistsError"
               ELSE /\ last.raised = None
                    /\ disk.query_model = [exists |-> TRUE, w |-> model.lm_q.w]
                    /\ disk.passage_model = [exists |-> TRUE, w |-> model.lm_p.w]
          ELSE /\ last.raised = None
               /\ disk.exists /\ disk.w = model.lm_q.w
               /\ disk.query_model.exists = last.had_query_model
               /\ disk.passage_model.exists = last.had_passage_model
       /\ (last.raised = None /\ ~model.pooler.none)
             => /\ disk.pooler_pt = File(StateDict(model.pooler))
                /\ disk.pooler_config = File([tied |-> model.pooler.tied])

C6_Witness ==
    /\ last.op = "save" /\ last.raised = "FileExistsError"
    /\ model.untie_encoder /\ ~model.pooler.none
    /\ ~last.had_query_model /\ last.had_passage_model

\* C9: 'multi-softmax' on an all-zero target matrix, and 'myloss' on a target
\* matrix in which no row has a positive row-sum, return a loss of exactly 0
\* without raising; 'myloss' on any other batch averages over exactly the rows
\* whose target row-sum is positive.
C9_DegenerateBatches ==
    (lcall.op = "compute_loss" /\ lcall.target.kind = "matrix")
    => LET target == lcall.target.v
           scores == lcall.scores
           positive == {i \in 1..Len(target) : RowSum(target[i]) > 0}
           PosRow(i) == SumTo([c \in 1..Len(target[i]) |->
                                  target[i][c] * Pow2(scores[i][c])], Len(target[i]))
           Term(i) == IF PosRow(i) >= ExpSum(scores[i]) THEN 0
                      ELSE Ln1000[ExpSum(scores[i])] - Ln1000[PosRow(i)]
           terms == [i \in 1..Len(target) |-> IF i \in positive THEN Term(i) ELSE 0]
       IN  /\ (lcall.loss_type = "multi-softmax"
                  /\ \A i \in 1..Len(target) : \A c \in 1..Len(target[i]) : target[i][c] = 0)
               => /\ lcall.result.raised = None
                  /\ lcall.result.loss.num = 0 /\ lcall.result.loss.den # 0
           /\ (lcall.loss_type = "myloss" /\ positive = {})
               => /\ lcall.result.raised = None
                  /\ lcall.result.loss.num = 0 /\ lcall.result.loss.den # 0
           /\ (lcall.loss_type = "myloss" /\ positive # {})
               => /\ lcall.result.raised = None
                  /\ lcall.result.loss.den = Cardinality(positive)
                  /\ lcall.result.loss.num = SumTo(terms, Len(terms))

C9_Witness ==
    /\ lcall.op = "compute_loss" /\ lcall.loss_type = "myloss"
    /\ lcall.target.kind = "matrix"
    /\ lcall.target.v = <<(<<0, 0>>), (<<0, 1>>)>>
    /\ lcall.scores = <<(<<0, 1>>), (<<1, 1>>)>>
    /\ lcall.result = Returned(Rat(693, 1))

\* C10: a pooling method other than 'mean' or 'cls' fails fast: a model
\* configured with any other method raises an error, it does not construct
\* and sentence_embedding does not return an embedding or None.
C10_UnknownPoolingFailsFast ==
    (ecall.op \in {"__init__", "sentence_embedding"} /\ ecall.method \notin {"mean", "cls"})
    => ecall.result.raised # None

\* C11: a model whose temperature is not positive never completes a training
\* forward that returns a similarity matrix and a loss (the error is surfaced
\* instead).
C11_NonPositiveTemperatureRejected ==
    \A r \in Ranks :
        (world.model.training /\ world.model.temperature <= 0)
        => ~(out[r].returned /\ ~out[r].loss.none /\ ~out[r].scores.none)

\* C12: compute_loss with a loss_type other than 'softmax', 'multi-softmax'
\* or 'myloss' raises and returns no loss value, whatever the scores and the
\* target.
C12_UnknownLossTypeRaises ==
    (lcall.op = "compute_loss"
        /\ lcall.loss_type \notin {"softmax", "multi-softmax", "myloss"})
    => lcall.result.raised = "AssertionError"

\* compute_loss was called with loss_type 'hinge' on scores and class targets
\* that the 'softmax' policy accepts, and raised
C12_Witness ==
    /\ lcall.op = "compute_loss"
    /\ lcall.loss_type = "hinge"
    /\ lcall.target.kind = "class"
    /\ Len(lcall.scores) = 2
    /\ SoftmaxLoss(lcall.scores, lcall.target).raised = None
    /\ lcall.result.raised = "AssertionError"

\* C13: the projection head applies the query-side linear map whenever a
\* query vector is given, the passage-side map when only a passage vector is
\* given, and raises ValueError when neither is given; constructed tied, both
\* sides are one parameter set (a step on either side moves both), otherwise
\* they are two sets (a step on one side leaves the other as it was), and the
\* tie mode stays as constructed.
C13_HeadDispatch ==
    LET Apply(lin, x) ==
            Tensor([i \in 1..Len(x.rows) |->
                      Rat(lin.w * x.rows[i].num + lin.b * x.rows[i].den, x.rows[i].den)])
    IN  /\ hcall.op = "forward" =>
            /\ ~hcall.q.none =>
                  /\ hcall.result.raised = None
                  /\ hcall.result.reps = Apply(head.modules[head.linear_q], hcall.q)
            /\ (hcall.q.none /\ ~hcall.p.none) =>
                  /\ hcall.result.raised = None
                  /\ hcall.result.reps = Apply(head.modules[head.linear_p], hcall.p)
            /\ (hcall.q.none /\ hcall.p.none) => hcall.result.raised = "ValueError"
        /\ hcall.op # "none" => (head.tied <=> head.linear_p = head.linear_q)
        /\ hcall.op = "step" =>
            IF head.tied
            THEN /\ Deref(head).linear_q = Deref(head).linear_p
                 /\ Deref(head).linear_q # hcall.before.linear_q
            ELSE IF hcall.side = "linear_q"
            THEN /\ Deref(head).linear_p = hcall.before.linear_p
                 /\ Deref(head).linear_q # hcall.before.linear_q
            ELSE /\ Deref(head).linear_q = hcall.before.linear_q
                 /\ Deref(head).linear_p # hcall.before.linear_p

\* an untied head whose two maps differ was called with both a query and a
\* passage vector and answered with the query-side map
C13_Witness ==
    /\ hcall.op = "forward"
    /\ ~head.tied
    /\ head.modules[head.linear_q].w = 2
    /\ head.modules[head.linear_p].w = 1
    /\ hcall.q = Tensor(<<Rat(1, 1)>>)
    /\ hcall.p = Tensor(<<Rat(1, 1)>>)
    /\ hcall.result.reps = Tensor(<<Rat(3, 1)>>)

\* C14: in a group with cross-device gathering, a gather call has returned
\* only if every process contributed to its collective; when all processes
\* make the same number of gather calls (3 with a teacher matrix, 2 without,
\* both inputs present) every process finishes its forward with all its calls
\* completed; when the numbers differ some process never leaves its gather.
C14_GatherBarrier ==
    /\ [](\A r \in Ranks :
            LET completed == IF pc[r] \in {"gather_q", "gather_p", "gather_t"}
                             THEN gathers[r] - 1 ELSE gathers[r]
            IN  \A n \in 1..completed :
                    /\ n <= Len(coll)
                    /\ \A j \in Ranks : ~coll[n][j].none)
    /\ []((/\ \A r \in Ranks : pc[r] # "ready"
           /\ \E r \in Ranks, j \in Ranks : GatherCalls(r) # GatherCalls(j))
          => \E r \in Ranks : pc[r] \in {"gather_q", "gather_p", "gather_t"})
    /\ ((/\ \A r \in Ranks : pc[r] # "ready"
         /\ \A r \in Ranks, j \in Ranks : GatherCalls(r) = GatherCalls(j))
        ~> (\A r \in Ranks : pc[r] = "returned" /\ gathers[r] = GatherCalls(r)))

\* two processes, each with a query, passages and a teacher matrix, both
\* returned from forward after three completed gathers
C14_Witness ==
    /\ world.world_size = 2
    /\ world.model.variant = "BiEncoderModel"
    /\ \A r \in Ranks :
        /\ pc[r] = "returned"
        /\ gathers[r] = 3
        /\ ~frame[r].teacher_score.none
        /\ ~out[r].loss.none
    /\ Len(coll) = 3

\* C15: for arguments whose model path loads (and, with cross-device
\* gathering requested, an initialized distributed runtime), build of either
\* variant returns a model of its own class whose untie, normalization,
\* pooling-method, temperature and negative-gather settings equal the
\* arguments.
C15_BuildSucceeds ==
    (bcall.op = "build"
        /\ (bcall.train_args.negatives_x_device => bcall.dist_initialized))
    => /\ bcall.result.raised = None
       /\ bcall.result.model.variant = bcall.cls
       /\ bcall.result.model.untie_encoder = bcall.model_args.untie_encoder
       /\ bcall.result.model.normlized = bcall.model_args.normlized
       /\ bcall.result.model.sentence_pooling_method
              = bcall.model_args.sentence_pooling_method
       /\ bcall.result.model.temperature = bcall.train_args.temperature
       /\ bcall.result.model.negatives_x_device = bcall.train_args.negatives_x_device

====
